---- MODULE Spec2Model ----
(***************************************************************************)
(* MD-playground: one-dimensional molecular dynamics of point particles.   *)
(*                                                                         *)
(* The module models                                                       *)
(*   - the potentials (Harmonic, DoubleWell) of potentials_and_forces.py,  *)
(*   - the System record of system.py,                                     *)
(*   - the Velocity Verlet integrator of integrators.py,                   *)
(*   - the energy accountant compute_energies of utils.py,                 *)
(*   - the driver run_md of md.py.                                         *)
(*                                                                         *)
(* All state vectors are numpy float64 arrays (md.py:44-45).  A float64 is *)
(* modelled bit-exactly as sign * mantissa * 2^exponent with a 53-bit      *)
(* mantissa and round-to-nearest-even after every arithmetic operation;    *)
(* the mantissa is a little-endian sequence of 14-bit limbs because the    *)
(* model checker's integers are 32 bits wide.  The exponent is unbounded:  *)
(* the invariant FloatsInRange states that no value of a run leaves the    *)
(* normal range of float64, so overflow and subnormals never arise within  *)
(* the inputs explored.                                                    *)
(***************************************************************************)
EXTENDS Integers, Sequences, FiniteSets, TLC

(***************************************************************************)
(* Natural numbers of arbitrary size: little-endian limbs, radix 2^14,     *)
(* no leading (most significant) zero limb; zero is << >>.                 *)
(***************************************************************************)
LimbBits == 7 + 7

Base == 2 ^ LimbBits

Max(a, b) == IF a >= b THEN a ELSE b

Min(a, b) == IF a <= b THEN a ELSE b

RECURSIVE BTrim(_)
BTrim(a) ==
    IF a = << >> THEN << >>
    ELSE IF a[Len(a)] = 0 THEN BTrim(SubSeq(a, 1, Len(a) - 1))
    ELSE a

Limb(a, i) == IF i <= Len(a) THEN a[i] ELSE 0

RECURSIVE BAddC(_, _, _, _)
BAddC(a, b, i, c) ==
    IF i > Len(a) /\ i > Len(b)
    THEN (IF c = 0 THEN << >> ELSE << c >>)
    ELSE LET s == Limb(a, i) + Limb(b, i) + c
         IN  << s % Base >> \o BAddC(a, b, i + 1, s \div Base)

BAdd(a, b) == BAddC(a, b, 1, 0)

\* a - b for a >= b
RECURSIVE BSubC(_, _, _, _)
BSubC(a, b, i, br) ==
    IF i > Len(a) THEN << >>
    ELSE LET d == Limb(a, i) - Limb(b, i) - br
         IN  IF d < 0
             THEN << d + Base >> \o BSubC(a, b, i + 1, 1)
             ELSE << d >> \o BSubC(a, b, i + 1, 0)

BSub(a, b) == BTrim(BSubC(a, b, 1, 0))

RECURSIVE BCmpAt(_, _, _)
BCmpAt(a, b, i) ==
    IF i = 0 THEN 0
    ELSE IF a[i] > b[i] THEN 1
    ELSE IF a[i] < b[i] THEN -1
    ELSE BCmpAt(a, b, i - 1)

\* -1, 0, 1 as a < b, a = b, a > b
BCmp(a, b) ==
    IF Len(a) > Len(b) THEN 1
    ELSE IF Len(a) < Len(b) THEN -1
    ELSE BCmpAt(a, b, Len(a))

RECURSIVE BMulSmallC(_, _, _, _)
BMulSmallC(a, d, i, c) ==
    IF i > Len(a)
    THEN (IF c = 0 THEN << >> ELSE << c >>)
    ELSE LET s == a[i] * d + c
         IN  << s % Base >> \o BMulSmallC(a, d, i + 1, s \div Base)

\* a * d for a limb-sized d
BMulSmall(a, d) == IF d = 0 THEN << >> ELSE BMulSmallC(a, d, 1, 0)

RECURSIVE BMulFrom(_, _, _)
BMulFrom(a, b, j) ==
    IF j > Len(b) THEN << >>
    ELSE BAdd(BMulSmall(a, b[j]), << 0 >> \o BMulFrom(a, b, j + 1))

BMul(a, b) == IF a = << >> \/ b = << >> THEN << >> ELSE BTrim(BMulFrom(a, b, 1))

RECURSIVE BPow(_, _)
BPow(a, n) == IF n = 0 THEN << 1 >> ELSE BMul(a, BPow(a, n - 1))

Zeros(n) == [i \in 1..n |-> 0]

\* a * 2^k
BShl(a, k) ==
    IF a = << >> THEN << >>
    ELSE Zeros(k \div LimbBits) \o BMulSmall(a, 2 ^ (k % LimbBits))

\* floor(a / d) for a limb-sized d, from the most significant limb down
RECURSIVE BDivSmallC(_, _, _, _)
BDivSmallC(a, d, i, r) ==
    IF i = 0 THEN << >>
    ELSE LET s == r * Base + a[i]
         IN  BDivSmallC(a, d, i - 1, s % d) \o << s \div d >>

BDivSmall(a, d) == BTrim(BDivSmallC(a, d, Len(a), 0))

\* floor(a / 2^k)
BShr(a, k) ==
    IF k \div LimbBits >= Len(a) THEN << >>
    ELSE BDivSmall(SubSeq(a, k \div LimbBits + 1, Len(a)), 2 ^ (k % LimbBits))

BitLen(a) ==
    IF a = << >> THEN 0
    ELSE LimbBits * (Len(a) - 1)
         + (CHOOSE n \in 1..LimbBits : 2 ^ (n - 1) <= a[Len(a)] /\ a[Len(a)] < 2 ^ n)

BIsOdd(a) == a # << >> /\ a[1] % 2 = 1

\* the largest d in lo..hi-1 with b * d <= r, given b * lo <= r < b * hi
RECURSIVE BDigit(_, _, _, _)
BDigit(r, b, lo, hi) ==
    IF hi - lo <= 1 THEN lo
    ELSE LET mid == (lo + hi) \div 2
         IN  IF BCmp(BMulSmall(b, mid), r) <= 0
             THEN BDigit(r, b, mid, hi)
             ELSE BDigit(r, b, lo, mid)

\* one step of long division: the remainder so far r1, its quotient digit d
BDivDigit(q, r1, b, d) == << << d >> \o q, BSub(r1, BMulSmall(b, d)) >>

BDivLimb(q, r1, b) ==
    CHOOSE r \in { BDivDigit(q, r1, b, d) : d \in { BDigit(r1, b, 0, Base) } } : TRUE

\* long division of the limbs i..Len(a) of a by b: << quotient, remainder >>
RECURSIVE BDivFrom(_, _, _)
BDivNext(h, ai, b) ==
    CHOOSE r \in { BDivLimb(h[1], r1, b) : r1 \in { BTrim(<< ai >> \o h[2]) } } : TRUE

BDivFrom(a, b, i) ==
    IF i > Len(a) THEN << << >>, << >> >>
    ELSE CHOOSE r \in { BDivNext(h, a[i], b) : h \in { BDivFrom(a, b, i + 1) } } : TRUE

BDivTrim(h) == << BTrim(h[1]), h[2] >>

\* << floor(a / b), a mod b >> for b > 0
BDivMod(a, b) == BDivTrim(BDivFrom(a, b, 1))

RECURSIVE BFromNat(_)
BFromNat(n) == IF n = 0 THEN << >> ELSE << n % Base >> \o BFromNat(n \div Base)

(***************************************************************************)
(* float64.  A value is [sg, mn, ex] meaning sg * mn * 2^ex with sg in     *)
(* {-1, 0, 1}; a nonzero value has a mantissa of exactly Precision bits,   *)
(* so equal values have equal representations.                             *)
(***************************************************************************)
Precision == 53

FZero == [sg |-> 0, mn |-> << >>, ex |-> 0]

\* a mantissa of Precision or Precision + 1 bits, brought to Precision bits
FNorm(sg, q, e) ==
    IF BitLen(q) > Precision
    THEN [sg |-> sg, mn |-> BShr(q, 1), ex |-> e + 1]
    ELSE [sg |-> sg, mn |-> q, ex |-> e]

\* q is m without its k low bits, c compares those bits with half a unit
FRoundUp(sg, q, e, c) ==
    FNorm(sg, IF c > 0 \/ (c = 0 /\ BIsOdd(q)) THEN BAdd(q, << 1 >>) ELSE q, e)

FRoundCut(sg, m, e, k, q) ==
    FRoundUp(sg, q, e + k, BCmp(BSub(m, BShl(q, k)), BShl(<< 1 >>, k - 1)))

FRoundLen(sg, m, e, l) ==
    IF l <= Precision
    THEN [sg |-> sg, mn |-> BShl(m, Precision - l), ex |-> e - (Precision - l)]
    ELSE FRoundCut(sg, m, e, l - Precision, BShr(m, l - Precision))

\* sg * m * 2^e, exact, rounded to the nearest float64 (ties to even)
FRound(sg, m, e) ==
    IF m = << >> \/ sg = 0 THEN FZero ELSE FRoundLen(sg, m, e, BitLen(m))

FNegV(a) == [a EXCEPT !.sg = -a.sg]

FNeg(a) == CHOOSE r \in { FNegV(x) : x \in {a} } : TRUE

\* sa * ma * 2^e + sb * mb * 2^e as << sign, magnitude, exponent >>
ExactAligned(sa, ma, sb, mb, e, c) ==
    IF sa = sb THEN << sa, BAdd(ma, mb), e >>
    ELSE IF c = 0 THEN << 0, << >>, 0 >>
    ELSE IF c > 0 THEN << sa, BSub(ma, mb), e >>
    ELSE << sb, BSub(mb, ma), e >>

ExactAlign(sa, ma, sb, mb, e) == ExactAligned(sa, ma, sb, mb, e, BCmp(ma, mb))

\* the exact sum of two floats as << sign, magnitude, exponent >>
ExactSum(a, b) ==
    IF a.sg = 0 THEN << b.sg, b.mn, b.ex >>
    ELSE IF b.sg = 0 THEN << a.sg, a.mn, a.ex >>
    ELSE ExactAlign(a.sg, BShl(a.mn, a.ex - Min(a.ex, b.ex)),
                    b.sg, BShl(b.mn, b.ex - Min(a.ex, b.ex)), Min(a.ex, b.ex))

FRoundT(s) == FRound(s[1], s[2], s[3])

\* Each operation first evaluates its operands (the bound x, y are values),
\* as Python does, so that nested expressions are evaluated inside out.
FAddV(a, b) == FRoundT(ExactSum(a, b))

FAdd(a, b) == CHOOSE r \in { FAddV(x, y) : x \in {a}, y \in {b} } : TRUE

FSub(a, b) == FAdd(a, FNeg(b))

FMulV(a, b) == FRound(a.sg * b.sg, BMul(a.mn, b.mn), a.ex + b.ex)

FMul(a, b) == CHOOSE r \in { FMulV(x, y) : x \in {a}, y \in {b} } : TRUE

\* the quotient d[1] with a sticky bit for a nonzero remainder d[2]
FSticky(d) == BAdd(BAdd(d[1], d[1]), IF d[2] = << >> THEN << >> ELSE << 1 >>)

\* a / b for b # 0: the quotient to Precision + 3 bits and a sticky bit
FDivV(a, b) ==
    IF a.sg = 0 THEN FZero
    ELSE FRound(a.sg * b.sg, FSticky(BDivMod(BShl(a.mn, Precision + 3), b.mn)),
                a.ex - b.ex - Precision - 4)

FDiv(a, b) == CHOOSE r \in { FDivV(x, y) : x \in {a}, y \in {b} } : TRUE

\* a ** n for a small positive integer n, correctly rounded.  numpy squares
\* exactly so for n = 2; for n = 3, 4 it calls the C library's pow, whose
\* result may differ in the last bit.  No property below depends on that bit:
\* they compare a stored force with the same function of the same positions.
FPowV(a, n) ==
    FRound(IF n % 2 = 0 THEN a.sg * a.sg ELSE a.sg, BPow(a.mn, n), n * a.ex)

FPow(a, n) == CHOOSE r \in { FPowV(x, n) : x \in {a} } : TRUE

FFromInt(n) ==
    IF n = 0 THEN FZero
    ELSE IF n > 0 THEN FRound(1, BFromNat(n), 0)
    ELSE FRound(-1, BFromNat(-n), 0)

\* float(p/q) for a decimal literal p/q: the nearest float64
FLit(p, q) == FDiv(FFromInt(p), FFromInt(q))

\* s * 2^k, s the sign
FPow2(s, k) == [sg |-> s, mn |-> << 0, 0, 0, 2 ^ 10 >>, ex |-> k - 52]

\* sg * m * 2^e lies in the normal range of float64 (or is zero)
FInRange(a) == a.sg = 0 \/ (a.ex >= -1074 /\ a.ex <= 971)

\* |d| <= p / q for an exact d = << sign, magnitude, exponent >>
ExactWithin(d, p, q) ==
    d[1] = 0
    \/ BCmp(BShl(BMul(d[2], BFromNat(q)), IF d[3] >= 0 THEN d[3] ELSE 0),
            BShl(BFromNat(p), IF d[3] < 0 THEN -d[3] ELSE 0)) <= 0

\* |d| < p / q for an exact d = << sign, magnitude, exponent >>
ExactBelow(d, p, q) ==
    d[1] = 0
    \/ BCmp(BShl(BMul(d[2], BFromNat(q)), IF d[3] >= 0 THEN d[3] ELSE 0),
            BShl(BFromNat(p), IF d[3] < 0 THEN -d[3] ELSE 0)) < 0

\* |a - b| < p / q, decided exactly
FBelow(a, b, p, q) == \E d \in { ExactSum(a, FNeg(b)) } : ExactBelow(d, p, q)

\* |a - b| <= p / q, decided exactly (p, q small positive integers)
FWithin(a, b, p, q) == \E d \in { ExactSum(a, FNeg(b)) } : ExactWithin(d, p, q)

(***************************************************************************)
(* numpy arrays.  An attribute of System holds None or a one-dimensional   *)
(* float64 array.                                                          *)
(***************************************************************************)
None == [isNone |-> TRUE, data |-> << >>]

Array(d) == [isNone |-> FALSE, data |-> d]

\* a += b on arrays: b is broadcast to the shape of a, or numpy raises
CanIAdd(a, b) == Len(b) = Len(a) \/ Len(b) = 1

IAdd(a, b) == [j \in 1..Len(a) |-> FAdd(a[j], IF Len(b) = Len(a) THEN b[j] ELSE b[1])]

(***************************************************************************)
(* potentials_and_forces.py                                                *)
(***************************************************************************)
\* The literals of the source, written out as float64 values
\* (LiteralsExact states that each is the correctly rounded decimal).
Half == FPow2(1, -1)

One == FPow2(1, 0)

Two == FPow2(1, 1)

Four == FPow2(1, 2)

MinusFour == FPow2(-1, 2)

Quarter == FPow2(1, -2)

\* 0.01 = 0x1.47ae147ae147bp-7
Hundredth == [sg |-> 1, mn |-> << 5243, 7864, 11796, 1310 >>, ex |-> -59]

\* 0.002 = 0x1.0624dd2f1a9fcp-9
TwoThousandths == [sg |-> 1, mn |-> << 10748, 3014, 9437, 1048 >>, ex |-> -61]

LiteralsExact ==
    /\ Half = FLit(1, 2) /\ One = FFromInt(1) /\ Two = FFromInt(2)
    /\ Four = FFromInt(4) /\ MinusFour = FFromInt(-4) /\ Quarter = FLit(1, 4)
    /\ Hundredth = FLit(1, 100) /\ TwoThousandths = FLit(2, 1000)

Harmonic(k, x0) ==
    [kind |-> "harmonic", k |-> k, x0 |-> x0,
     a |-> FZero, b |-> FZero, c |-> FZero, d |-> FZero]

DoubleWell(a, b, c, d) ==
    [kind |-> "double_well", k |-> FZero, x0 |-> FZero,
     a |-> a, b |-> b, c |-> c, d |-> d]

NoPotential ==
    [kind |-> "none", k |-> FZero, x0 |-> FZero,
     a |-> FZero, b |-> FZero, c |-> FZero, d |-> FZero]

\* 0.5 * self.k * (x - self.x0)**2
HarmonicPotential(p, x) == FMul(FMul(Half, p.k), FPow(FSub(x, p.x0), 2))

\* -self.k * (x - self.x0)
HarmonicForce(p, x) == FMul(FNeg(p.k), FSub(x, p.x0))

\* self.a * x**4 - self.b * x**2 + self.c * x + self.d
DoubleWellPotential(p, x) ==
    FAdd(FAdd(FSub(FMul(p.a, FPow(x, 4)), FMul(p.b, FPow(x, 2))), FMul(p.c, x)), p.d)

\* -4.0 * self.a * x**3 + 2.0 * self.b * x - self.c
DoubleWellForce(p, x) ==
    FSub(FAdd(FMul(FMul(MinusFour, p.a), FPow(x, 3)),
              FMul(FMul(Two, p.b), x)),
         p.c)

\* potential.potential(x) on a scalar
PotentialOf(p, x) ==
    IF p.kind = "harmonic" THEN HarmonicPotential(p, x) ELSE DoubleWellPotential(p, x)

\* potential.force(xs) on an array, elementwise
ForceOf(p, xs) ==
    IF p.kind = "harmonic"
    THEN [j \in 1..Len(xs) |-> HarmonicForce(p, xs[j])]
    ELSE [j \in 1..Len(xs) |-> DoubleWellForce(p, xs[j])]

(***************************************************************************)
(* The state: the System object, the integrator, the driver run_md.        *)
(***************************************************************************)
VARIABLES
    args,        \* the configuration handed to run_md
    pc,          \* where run_md stands ("api": the objects are used directly)
    constructed, \* a System object exists
    mass,        \* System.mass
    potential,   \* System.potential
    positions,   \* System.positions: None or an array
    velocities,  \* System.velocities: None or an array
    forces,      \* System.forces: None or an array
    integrator,  \* "none", "VVIntegrator" or "LangevinIntegrator"
    dt,          \* VVIntegrator.dt
    i,           \* the loop index of run_md
    log,         \* the records written to the output file, in order
    exc,         \* the exception the last call raised, "none" if it returned
    lastOp,      \* the last operation called
    energies,    \* what compute_energies returned, while it is the last call
    forceCalls,  \* how many times potential.force has been evaluated
    rev          \* the reversal experiment: initial state, step counts, negated

vars == << args, pc, constructed, mass, potential, positions, velocities, forces,
           integrator, dt, i, log, exc, lastOp, energies, forceCalls, rev >>

(***************************************************************************)
(* system.py                                                               *)
(***************************************************************************)
\* System.initialize, line 47: self.forces = self.potential.force(self.positions);
\* lines 44-45 store the two arrays as they are, nothing is validated
InitialForces(p, xs) == ForceOf(p, xs)

(***************************************************************************)
(* integrators.py                                                          *)
(***************************************************************************)
\* a faulty variant of HalfKick: the factor 0.5 is forgotten
HalfKickFull(fs, m, h) == [j \in 1..Len(fs) |-> FMul(FDiv(fs[j], m), h)]

\* 0.5 * forces / mass * dt, elementwise
HalfKick(fs, m, h) == [j \in 1..Len(fs) |-> FMul(FDiv(FMul(Half, fs[j]), m), h)]

\* velocities * dt, elementwise
Drift(vs, h) == [j \in 1..Len(vs) |-> FMul(vs[j], h)]

StepResult(x, v, f, e, n) ==
    [positions |-> x, velocities |-> v, forces |-> f, exc |-> e, calls |-> n]

\* a faulty variant of SecondKick: line 48 adds the kick to forces, not velocities
SecondKickOnForces(x1, v1, f1, k2) ==
    IF ~CanIAdd(f1, k2)
    THEN StepResult(Array(x1), Array(v1), Array(f1), "ValueError", 1)
    ELSE StepResult(Array(x1), Array(v1), Array(IAdd(f1, k2)), "none", 1)

\* line 48: self.system.velocities += 0.5 * self.system.forces / self.system.mass * dt
SecondKick(x1, v1, f1, k2) ==
    IF ~CanIAdd(v1, k2)
    THEN StepResult(Array(x1), Array(v1), Array(f1), "ValueError", 1)
    ELSE StepResult(Array(x1), Array(IAdd(v1, k2)), Array(f1), "none", 1)

\* a faulty variant of ForceRefresh: the second kick is a full kick
ForceRefreshFullKick(x1, v1, f1, m, h) ==
    SecondKick(x1, v1, f1, [j \in 1..Len(f1) |-> FMul(FDiv(f1[j], m), h)])

\* line 44: self.system.forces = self.system.potential.force(self.system.positions)
ForceRefresh(x1, v1, f1, m, h) == SecondKick(x1, v1, f1, HalfKick(f1, m, h))

\* line 40, done: the positions are x1
Moved(x1, v1, m, p, h) == ForceRefresh(x1, v1, ForceOf(p, x1), m, h)

\* a faulty variant of PositionUpdate: lines 40 and 44 are exchanged, the force
\* is evaluated at the positions before the update
PositionUpdateStale(x, v1, f, m, p, h, dx) ==
    IF ~CanIAdd(x.data, dx)
    THEN StepResult(x, Array(v1), f, "ValueError", 0)
    ELSE ForceRefresh(IAdd(x.data, dx), v1, ForceOf(p, x.data), m, h)

\* line 40: self.system.positions += self.system.velocities * dt
PositionUpdate(x, v1, f, m, p, h, dx) ==
    IF ~CanIAdd(x.data, dx)
    THEN StepResult(x, Array(v1), f, "ValueError", 0)
    ELSE Moved(IAdd(x.data, dx), v1, m, p, h)

\* line 36, done: the velocities are v1
Kicked(x, v1, f, m, p, h) == PositionUpdate(x, v1, f, m, p, h, Drift(v1, h))

\* line 36: self.system.velocities += 0.5 * self.system.forces / self.system.mass * dt
FirstKick(x, v, f, m, p, h, k1) ==
    IF ~CanIAdd(v.data, k1)
    THEN StepResult(x, v, f, "ValueError", 0)
    ELSE Kicked(x, IAdd(v.data, k1), f, m, p, h)

\* a faulty variant of VVStep: an uninitialized system is skipped silently
VVStepSilent(x, v, f, m, p, h) ==
    IF x.isNone \/ v.isNone \/ f.isNone
    THEN StepResult(x, v, f, "none", 0)
    ELSE FirstKick(x, v, f, m, p, h, HalfKick(f.data, m, h))

\* VVIntegrator.step, statement by statement; an exception leaves what the
\* statements before it have already written.  calls counts potential.force.
VVStep(x, v, f, m, p, h) ==
    IF x.isNone \/ v.isNone \/ f.isNone
    THEN StepResult(x, v, f, "TypeError", 0)
    ELSE FirstKick(x, v, f, m, p, h, HalfKick(f.data, m, h))

(***************************************************************************)
(* utils.py                                                                *)
(***************************************************************************)
NoEnergies ==
    [exc |-> "none", kinetic |-> FZero, potential |-> FZero, total |-> FZero,
     position |-> FZero, velocity |-> FZero]

EnergyResult(ke, pe, x0, v0) ==
    [exc |-> "none", kinetic |-> ke, potential |-> pe, total |-> FAdd(ke, pe),
     position |-> x0, velocity |-> v0]

\* compute_energies up to the write: the energies of particle 0
ComputeEnergies(x, v, m, p) ==
    IF x.isNone \/ v.isNone THEN [NoEnergies EXCEPT !.exc = "TypeError"]
    ELSE IF Len(x.data) = 0 \/ Len(v.data) = 0 THEN [NoEnergies EXCEPT !.exc = "IndexError"]
    ELSE EnergyResult(FMul(FMul(Half, m), FPow(v.data[1], 2)), PotentialOf(p, x.data[1]),
                      x.data[1], v.data[1])

\* the record compute_energies writes: step, potential, kinetic, total, x, v
LogRecord(istep, e) ==
    [step |-> istep, potential |-> e.potential, kinetic |-> e.kinetic,
     total |-> e.total, position |-> e.position, velocity |-> e.velocity]

(***************************************************************************)
(* Direct use of the objects: a System and a VVIntegrator are constructed, *)
(* then initialize, step and compute_energies are called in any order; the *)
(* caller may negate the velocities once (the reversal experiment).        *)
(***************************************************************************)
MaxN == 2

MaxK == 3

NoArgs ==
    [potential |-> "none", k |-> FZero, x0 |-> FZero, mass |-> FZero,
     positions |-> << >>, velocities |-> << >>, sim_type |-> "none", dt |-> FZero,
     steps |-> 0, print_freq |-> 1, output |-> "none"]

NoRev == [x0 |-> << >>, v0 |-> << >>, fwd |-> 0, back |-> 0, negated |-> FALSE]

\* Harmonic(1.0, 0.0), the demo's Harmonic(1.0, 0.25), DoubleWell()
Potentials ==
    { Harmonic(One, FZero), Harmonic(One, Quarter), DoubleWell(One, One, Half, FZero) }

\* << mass, dt >>: the scenario's 1.0 and 0.01, and 2.0 with the default 0.002
MassAndStep == { << One, Hundredth >>, << Two, TwoThousandths >> }

\* [1.0], [1.0, 2.0], ... and the default [2.0]
PosArrays == { [j \in 1..n |-> FFromInt(j)] : n \in 1..MaxN } \cup { << Two >> }

\* [1.0], [1.0, 2.0], ..., the scenario's [0.0] and the default [4.0]
VelArrays ==
    { [j \in 1..n |-> FFromInt(j)] : n \in 1..MaxN } \cup { << FZero >>, << Four >> }

InitApi ==
    /\ args = NoArgs
    /\ pc = "api"
    /\ constructed = TRUE
    /\ \E md \in MassAndStep : mass = md[1] /\ dt = md[2]
    /\ potential \in Potentials
    /\ positions = None
    /\ velocities = None
    /\ forces = None
    /\ integrator = "VVIntegrator"
    /\ i = 0
    /\ log = << >>
    /\ exc = "none"
    /\ lastOp = "construct"
    /\ energies = NoEnergies
    /\ forceCalls = 0
    /\ rev = NoRev

\* system.initialize(xs, vs) with two distinct arrays
Initialize(xs, vs) ==
    /\ pc = "api"
    /\ positions.isNone
    /\ positions' = Array(xs)
    /\ velocities' = Array(vs)
    /\ forces' = Array(InitialForces(potential, xs))
    /\ forceCalls' = forceCalls + 1
    /\ exc' = "none"
    /\ lastOp' = "initialize"
    /\ energies' = NoEnergies
    /\ rev' = [NoRev EXCEPT !.x0 = xs, !.v0 = vs]
    /\ UNCHANGED << args, pc, constructed, mass, potential, integrator, dt, i, log >>

\* the System after integrator.step() returned or raised r
Stepped(r) ==
    /\ positions' = r.positions
    /\ velocities' = r.velocities
    /\ forces' = r.forces
    /\ exc' = r.exc
    /\ forceCalls' = forceCalls + r.calls

\* integrator.step()
Step ==
    /\ pc = "api"
    /\ IF rev.negated THEN rev.back < rev.fwd ELSE rev.fwd < MaxK
    /\ Stepped(VVStep(positions, velocities, forces, mass, potential, dt))
    /\ lastOp' = "step"
    /\ energies' = NoEnergies
    /\ rev' = IF rev.negated THEN [rev EXCEPT !.back = @ + 1] ELSE [rev EXCEPT !.fwd = @ + 1]
    /\ UNCHANGED << args, pc, constructed, mass, potential, integrator, dt, i, log >>

\* compute_energies(system, istep) without a log file
Energies ==
    /\ pc = "api"
    /\ lastOp # "energies"
    /\ energies' = ComputeEnergies(positions, velocities, mass, potential)
    /\ exc' = energies'.exc
    /\ lastOp' = "energies"
    /\ UNCHANGED << args, pc, constructed, mass, potential, positions, velocities, forces,
                    integrator, dt, i, log, forceCalls, rev >>

\* the caller's system.velocities = -system.velocities of the reversal experiment
Negate ==
    /\ pc = "api"
    /\ ~velocities.isNone
    /\ ~rev.negated
    /\ velocities' = Array([j \in 1..Len(velocities.data) |-> FNeg(velocities.data[j])])
    /\ rev' = [rev EXCEPT !.negated = TRUE]
    /\ exc' = "none"
    /\ lastOp' = "negate"
    /\ energies' = NoEnergies
    /\ UNCHANGED << args, pc, constructed, mass, potential, positions, forces,
                    integrator, dt, i, log, forceCalls >>

NextApi ==
    \/ \E xs \in PosArrays, vs \in VelArrays : Initialize(xs, vs)
    \/ Step
    \/ Energies
    \/ Negate

SpecApi == InitApi /\ [][NextApi]_vars

(***************************************************************************)
(* md.py: run_md(args).  pc follows the function: "start" (line 34),       *)
(* "system" (line 42), "integrator" (line 49), "open" (line 57), "loop"    *)
(* (line 59), "log" (line 63), "written" (line 69, the file is closed),    *)
(* "done" (it returned), "raised" (an exception left it; exc names it).    *)
(***************************************************************************)
MaxSteps == 2

ScenarioSteps == 1000

ScenarioFreq == 100

\* mass=1.0, Harmonic(k=1.0, x0=0.0), position=[1.0], velocity=[0.0], dt=0.01
ScenarioArgs(pot, sim, n, freq, out) ==
    [potential |-> pot, k |-> One, x0 |-> FZero, mass |-> One,
     positions |-> << One >>, velocities |-> << FZero >>, sim_type |-> sim,
     dt |-> Hundredth, steps |-> n, print_freq |-> freq, output |-> out]

\* the scenario's run, logging every 100th step or every step
LongRuns ==
    { ScenarioArgs("harmonic", "nve", ScenarioSteps, freq, "output.log") :
        freq \in {1, ScenarioFreq} }

\* short runs over every potential name, simulation type and output file
ShortRuns ==
    { ScenarioArgs(pot, sim, n, freq, out) :
        pot \in {"harmonic", "double_well", "quadratic_cubic"},
        sim \in {"nve", "nvt", "npt"},
        n \in 0..MaxSteps, freq \in {1, 2}, out \in {"output.log", "run.log"} }

\* short runs from main.py's defaults [2.0], [4.0], dt 0.002, and mismatched arrays
OtherRuns ==
    { [ScenarioArgs("harmonic", sim, MaxSteps, 1, "output.log") EXCEPT
          !.positions = pv[1], !.velocities = pv[2], !.dt = TwoThousandths] :
        sim \in {"nve", "npt"},
        pv \in { << << Two >>, << Four >> >>,
                 << << One, Two >>, << One >> >>,
                 << << One >>, << One, Two >> >> } }

Init ==
    /\ args \in LongRuns \cup ShortRuns \cup OtherRuns
    /\ pc = "start"
    /\ constructed = FALSE
    /\ mass = FZero
    /\ potential = NoPotential
    /\ positions = None
    /\ velocities = None
    /\ forces = None
    /\ integrator = "none"
    /\ dt = FZero
    /\ i = 0
    /\ log = << >>
    /\ exc = "none"
    /\ lastOp = "none"
    /\ energies = NoEnergies
    /\ forceCalls = 0
    /\ rev = NoRev

\* an exception leaves run_md
Raise(e) ==
    /\ pc' = "raised"
    /\ exc' = e

\* a faulty variant of SelectPotential: an unknown name falls back to Harmonic
SelectPotentialDefault ==
    /\ pc = "start"
    /\ IF args.potential = "double_well"
       THEN potential' = DoubleWell(One, One, Half, FZero)
       ELSE potential' = Harmonic(args.k, args.x0)
    /\ pc' = "system"
    /\ lastOp' = "select_potential"
    /\ UNCHANGED << args, constructed, mass, positions, velocities, forces, integrator,
                    dt, i, log, exc, energies, forceCalls, rev >>

\* lines 34-39
SelectPotential ==
    /\ pc = "start"
    /\ IF args.potential = "harmonic"
       THEN potential' = Harmonic(args.k, args.x0) /\ pc' = "system" /\ exc' = exc
       ELSE IF args.potential = "double_well"
       THEN potential' = DoubleWell(One, One, Half, FZero) /\ pc' = "system" /\ exc' = exc
       ELSE potential' = potential /\ Raise("ValueError")
    /\ lastOp' = "select_potential"
    /\ UNCHANGED << args, constructed, mass, positions, velocities, forces, integrator,
                    dt, i, log, energies, forceCalls, rev >>

\* lines 42-46: System(args.mass, potential), then initialize on two fresh arrays
CreateSystem ==
    /\ pc = "system"
    /\ constructed' = TRUE
    /\ mass' = args.mass
    /\ positions' = Array(args.positions)
    /\ velocities' = Array(args.velocities)
    /\ forces' = Array(InitialForces(potential, args.positions))
    /\ forceCalls' = forceCalls + 1
    /\ pc' = "integrator"
    /\ lastOp' = "initialize"
    /\ UNCHANGED << args, potential, integrator, dt, i, log, exc, energies, rev >>

\* lines 49-54
SelectIntegrator ==
    /\ pc = "integrator"
    /\ IF args.sim_type = "nve"
       THEN integrator' = "VVIntegrator" /\ dt' = args.dt /\ pc' = "open" /\ exc' = exc
       ELSE IF args.sim_type = "nvt"
       THEN integrator' = "LangevinIntegrator" /\ dt' = dt /\ pc' = "open" /\ exc' = exc
       ELSE integrator' = integrator /\ dt' = dt /\ Raise("ValueError")
    /\ lastOp' = "select_integrator"
    /\ UNCHANGED << args, constructed, mass, potential, positions, velocities, forces,
                    i, log, energies, forceCalls, rev >>

\* line 57: open(args.output, "w") truncates the file, or the system refuses
OpenOutput ==
    /\ pc = "open"
    /\ \/ pc' = "loop" /\ exc' = exc
       \/ Raise("OSError")
    /\ log' = << >>
    /\ lastOp' = "open"
    /\ UNCHANGED << args, constructed, mass, potential, positions, velocities, forces,
                    integrator, dt, i, energies, forceCalls, rev >>

\* the driver after integrator.step() returned or raised r
Advanced(r) ==
    /\ Stepped(r)
    /\ pc' = IF r.exc = "none" THEN "log" ELSE "raised"

\* lines 59-60: the next iteration calls integrator.step(); a LangevinIntegrator
\* has no such method
LoopStep ==
    /\ pc = "loop"
    /\ i < args.steps
    /\ IF integrator = "VVIntegrator"
       THEN Advanced(VVStep(positions, velocities, forces, mass, potential, dt))
       ELSE /\ Raise("AttributeError")
            /\ UNCHANGED << positions, velocities, forces, forceCalls >>
    /\ lastOp' = "step"
    /\ UNCHANGED << args, constructed, mass, potential, integrator, dt, i, log,
                    energies, rev >>

\* a faulty variant of Logged: a failed write is swallowed and the loop goes on
LoggedSwallow(e) ==
    /\ energies' = e
    /\ \/ /\ e.exc = "none"
          /\ log' = Append(log, LogRecord(i, e))
          /\ pc' = "loop" /\ i' = i + 1 /\ exc' = exc
       \/ /\ e.exc = "none"
          /\ exc' = "OSError"
          /\ pc' = "loop" /\ i' = i + 1 /\ log' = log
       \/ /\ e.exc # "none"
          /\ Raise(e.exc)
          /\ UNCHANGED << log, i >>

\* the driver after compute_energies computed e and wrote its line, or failed to
Logged(e) ==
    /\ energies' = e
    /\ \/ /\ e.exc = "none"
          /\ log' = Append(log, LogRecord(i, e))
          /\ pc' = "loop" /\ i' = i + 1 /\ exc' = exc
       \/ /\ e.exc = "none"
          /\ Raise("OSError")
          /\ UNCHANGED << log, i >>
       \/ /\ e.exc # "none"
          /\ Raise(e.exc)
          /\ UNCHANGED << log, i >>

\* a faulty variant of LoopLog: the cadence counts the iterations from one
LoopLogOffByOne ==
    /\ pc = "log"
    /\ IF (i + 1) % args.print_freq = 0
       THEN /\ Logged(ComputeEnergies(positions, velocities, mass, potential))
            /\ lastOp' = "energies"
       ELSE /\ pc' = "loop" /\ i' = i + 1
            /\ UNCHANGED << log, exc, energies, lastOp >>
    /\ UNCHANGED << args, constructed, mass, potential, positions, velocities, forces,
                    integrator, dt, forceCalls, rev >>

\* lines 63-64: every print_freq-th iteration logs; then the loop goes on
LoopLog ==
    /\ pc = "log"
    /\ IF i % args.print_freq = 0
       THEN /\ Logged(ComputeEnergies(positions, velocities, mass, potential))
            /\ lastOp' = "energies"
       ELSE /\ pc' = "loop" /\ i' = i + 1
            /\ UNCHANGED << log, exc, energies, lastOp >>
    /\ UNCHANGED << args, constructed, mass, potential, positions, velocities, forces,
                    integrator, dt, forceCalls, rev >>

\* line 59, the range is exhausted: the with block closes the file
LoopExit ==
    /\ pc = "loop"
    /\ i >= args.steps
    /\ pc' = "written"
    /\ lastOp' = "close"
    /\ UNCHANGED << args, constructed, mass, potential, positions, velocities, forces,
                    integrator, dt, i, log, exc, energies, forceCalls, rev >>

\* lines 69-80: pandas reads "output.log" back and the energies are plotted.
\* The file is this run's log only if args.output names it; an empty file is
\* an EmptyDataError, a missing one a FileNotFoundError.
ReadBack ==
    /\ pc = "written"
    /\ IF args.output = "output.log"
       THEN IF log = << >> THEN Raise("EmptyDataError") ELSE pc' = "done" /\ exc' = exc
       ELSE \/ pc' = "done" /\ exc' = exc
            \/ Raise("EmptyDataError")
            \/ Raise("FileNotFoundError")
    /\ lastOp' = "read_back"
    /\ UNCHANGED << args, constructed, mass, potential, positions, velocities, forces,
                    integrator, dt, i, log, energies, forceCalls, rev >>

Next ==
    \/ SelectPotential
    \/ CreateSystem
    \/ SelectIntegrator
    \/ OpenOutput
    \/ LoopStep
    \/ LoopLog
    \/ LoopExit
    \/ ReadBack

Spec == Init /\ [][Next]_vars

(***************************************************************************)
(* Properties.                                                             *)
(***************************************************************************)
\* every float64 of the state is zero or inside the normal range
ArrayInRange(a) == \A j \in 1..Len(a.data) : FInRange(a.data[j])

FloatsInRange ==
    /\ ArrayInRange(positions) /\ ArrayInRange(velocities) /\ ArrayInRange(forces)
    /\ FInRange(energies.kinetic) /\ FInRange(energies.potential) /\ FInRange(energies.total)
    /\ \A j \in 1..Len(log) : FInRange(log[j].total)

\* C1: once the System is initialized, in every state between calls (before
\* the first step and after each later step) the stored forces are exactly
\* the potential's force evaluated at the stored positions.
C1_ForceConsistency ==
    ~positions.isNone =>
        /\ ~forces.isNone
        /\ forces.data = ForceOf(potential, positions.data)

\* two steps succeeded on a two-particle system in the double well
C1_Witness ==
    /\ lastOp = "step" /\ exc = "none" /\ rev.fwd = 2
    /\ potential.kind = "double_well"
    /\ Len(positions.data) = 2
    /\ forces.data = ForceOf(potential, positions.data)

\* the half-step velocity of the step formula: v0 + 0.5 * (F0 / m) * dt
HalfStepVelocity(v0, f0, m, h) == FAdd(v0, FMul(FMul(Half, FDiv(f0, m)), h))

\* x1 = x0 + vh * dt, elementwise, vh the half-step velocities
FormulaPositions(x0, v0, f0, m, h) ==
    [j \in 1..Len(x0) |-> FAdd(x0[j], FMul(HalfStepVelocity(v0[j], f0[j], m, h), h))]

\* v1 = vh + 0.5 * (F1 / m) * dt, elementwise
FormulaVelocities(v0, f0, f1, m, h) ==
    [j \in 1..Len(v0) |->
        FAdd(HalfStepVelocity(v0[j], f0[j], m, h), FMul(FMul(Half, FDiv(f1[j], m)), h))]

\* C2: a successful step() from (x0, v0, F0) leaves x1 = x0 + vh*dt,
\* F1 = force(x1) and v1 = vh + 0.5*(F1/m)*dt with vh = v0 + 0.5*(F0/m)*dt.
C2_StepFormula ==
    [][ (lastOp' = "step" /\ exc' = "none") =>
          /\ positions'.data =
                FormulaPositions(positions.data, velocities.data, forces.data, mass, dt)
          /\ forces'.data = ForceOf(potential, positions'.data)
          /\ velocities'.data =
                FormulaVelocities(velocities.data, forces.data, forces'.data, mass, dt) ]_vars

\* a step succeeded on two particles with mass 2.0 and moved them
C2_Witness ==
    /\ lastOp = "step" /\ exc = "none" /\ rev.fwd = 1 /\ ~rev.negated
    /\ mass = Two
    /\ Len(positions.data) = 2
    /\ positions.data # rev.x0
    /\ velocities.data # rev.v0

\* the scenario of the energy test: 1000 steps, a record every 100th
Scenario == ScenarioArgs("harmonic", "nve", ScenarioSteps, ScenarioFreq, "output.log")

\* C3: in the scenario run (mass 1.0, Harmonic(1.0, 0.0), x = [1.0], v = [0.0],
\* dt = 0.01, 1000 steps, print_freq 100) the total energy of every record
\* written differs from 0.5 by less than 1e-3: of the newest record at every
\* moment of the run (also when every step is logged), and of all the records
\* once the loop is through.
C3_EnergyConserved ==
    /\ (args \in LongRuns /\ log # << >>) => FBelow(log[Len(log)].total, Half, 1, 1000)
    /\ (args = Scenario /\ pc \in {"written", "done"}) =>
            \A j \in 1..Len(log) : FBelow(log[j].total, Half, 1, 1000)

\* the scenario run returned with its ten records, the last one of step 900
C3_Witness ==
    /\ args = Scenario /\ pc = "done"
    /\ Len(log) = 10
    /\ log[10].step = 900
    /\ log[10].total # Half
    /\ FBelow(log[10].total, Half, 1, 1000)

\* a[j] is within p / q of b[j] for every j
WithinAll(a, b, p, q) ==
    /\ Len(a) = Len(b)
    /\ \A j \in 1..Len(a) : FWithin(a[j], b[j], p, q)

Negated(vs) == [j \in 1..Len(vs) |-> FNeg(vs[j])]

\* K steps, the negation, K more steps, all on a properly initialized System
Reversed ==
    /\ rev.negated
    /\ rev.back = rev.fwd
    /\ Len(rev.x0) = Len(rev.v0)

\* C4 as stated: K steps, negating the velocities and K more steps return every
\* position to its initial value and every velocity to the negation of its
\* initial value, exactly.
C4_ExactReversal ==
    Reversed => positions.data = rev.x0 /\ velocities.data = Negated(rev.v0)

\* C4 amended: K steps, negating the velocities and K more steps return every
\* position to within 1e-9 of its initial value and every velocity to within
\* 1e-9 of the negation of its initial value (float64 rounding is not undone).
C4_ApproxReversal ==
    Reversed =>
        /\ WithinAll(positions.data, rev.x0, 1, 10 ^ 9)
        /\ WithinAll(velocities.data, Negated(rev.v0), 1, 10 ^ 9)

\* two steps forth and two back ended near, but not at, the initial positions
C4_Witness ==
    /\ Reversed /\ rev.fwd = 2 /\ exc = "none"
    /\ positions.data # rev.x0
    /\ WithinAll(positions.data, rev.x0, 1, 10 ^ 9)

\* C5: in the scenario run the record whose step index is 0, the first one
\* written, reports the position passed to initialize, exactly 1.0.
C5_StepZeroInitialPosition ==
    (args \in LongRuns /\ log # << >>) =>
        /\ log[1].step = 0
        /\ log[1].position = args.positions[1]

\* C6: when a run whose sim_type is neither nve nor nvt raises, it is a
\* ValueError, no System has been constructed or initialized and no force has
\* been computed.
C6_NoStateBeforeSimTypeError ==
    (args.sim_type \notin {"nve", "nvt"} /\ pc = "raised") =>
        /\ exc = "ValueError"
        /\ ~constructed
        /\ positions.isNone
        /\ forceCalls = 0

\* C7: a run with sim_type nvt never completes the step loop normally,
\* whatever the number of steps.
C7_NvtNeverCompletes ==
    args.sim_type = "nvt" => pc \notin {"written", "done"}

\* C8: a run whose potential name is neither harmonic nor double_well raises
\* a ValueError at once, before any System is constructed, whatever the other
\* configuration fields are.
C8_UnknownPotential ==
    (args.potential \notin {"harmonic", "double_well"} /\ pc # "start") =>
        /\ pc = "raised"
        /\ exc = "ValueError"
        /\ ~constructed
        /\ positions.isNone /\ velocities.isNone /\ forces.isNone
        /\ forceCalls = 0
        /\ integrator = "none"
        /\ log = << >>

\* the run with potential quadratic_cubic has raised
C8_Witness ==
    /\ args.potential = "quadratic_cubic"
    /\ args.sim_type = "nvt" /\ args.steps = 2
    /\ pc = "raised" /\ exc = "ValueError"
    /\ ~constructed

\* C9: initialize with positions and velocities of different lengths fails
\* with an error and computes no force, System.forces stays undefined.
C9_MismatchRejected ==
    (lastOp = "initialize" /\ Len(rev.x0) # Len(rev.v0)) =>
        /\ exc # "none"
        /\ forces.isNone
        /\ forceCalls = 0

\* C10: on a System that is constructed but not initialized, step() and
\* compute_energies each end in an error and leave positions, velocities and
\* forces undefined.
C10_UninitializedFails ==
    [][ (positions.isNone /\ lastOp' \in {"step", "energies"}) =>
          /\ exc' = "TypeError"
          /\ positions' = None /\ velocities' = None /\ forces' = None
          /\ forceCalls' = 0 ]_vars

\* both step() and compute_energies have been called on the bare System
C10_Witness ==
    /\ positions.isNone /\ velocities.isNone /\ forces.isNone
    /\ rev.fwd >= 1
    /\ lastOp = "energies"
    /\ exc = "TypeError"

\* the write of compute_energies has just failed
WriteFailed == exc = "OSError" /\ lastOp = "energies"

\* C11: when the write of a record fails the run aborts: the exception leaves
\* run_md, and from then on no step is executed and no record is written.
C11_WriteFailureAborts ==
    /\ [](WriteFailed => pc = "raised")
    /\ [][WriteFailed =>
            UNCHANGED << positions, velocities, forces, forceCalls, log, i, pc >>]_vars

\* the write of the fourth record failed with steps still to go
C11_Witness ==
    /\ WriteFailed /\ pc = "raised"
    /\ args.sim_type = "nve"
    /\ Len(log) = 3
    /\ i + 1 < args.steps

\* an nve run is in its loop or has passed it (whatever the read-back did)
InOrPastLoop ==
    /\ args.sim_type = "nve"
    /\ \/ pc \in {"loop", "log", "written", "done"}
       \/ pc = "raised" /\ lastOp = "read_back"

\* the step() calls that returned: each evaluates the force once, after the
\* one evaluation of initialize
StepsDone == forceCalls - 1

\* how many of the loop indices 0..n-1 are multiples of print_freq
RecordsBefore(n) == (n + args.print_freq - 1) \div args.print_freq

\* C12: an nve run calls step() once per loop index, in order, steps times
\* in all, and writes one record for each index i < steps with
\* i % print_freq = 0, after the step of iteration i and before the step of
\* iteration i + 1, so the records are in increasing order of step index;
\* with steps = 0 nothing is written.
C12_LoopCadence ==
    InOrPastLoop =>
        /\ i <= args.steps
        /\ pc \notin {"loop", "log"} => i = args.steps
        /\ StepsDone = IF pc = "log" THEN i + 1 ELSE i
        /\ Len(log) = RecordsBefore(i)
        /\ \A j \in 1..Len(log) : log[j].step = (j - 1) * args.print_freq
        /\ (pc = "loop" /\ log # << >> /\ log[Len(log)].step = i - 1) =>
                /\ log[Len(log)].position = positions.data[1]
                /\ log[Len(log)].velocity = velocities.data[1]

\* two steps with print_freq 2 returned: one record, of index 0
C12_Witness ==
    /\ args.sim_type = "nve" /\ args.steps = 2 /\ args.print_freq = 2
    /\ pc = "done"
    /\ StepsDone = 2
    /\ Len(log) = 1 /\ log[1].step = 0

====
